---- MODULE Spec2Model ----
(***************************************************************************)
(* Model of the Babson events scraper (src/scrapers.py) and of the way the *)
(* main script (src/main.py) drives it.                                    *)
(*                                                                         *)
(* Two specifications share the module:                                    *)
(*   Spec         one run of scrape_babson_events followed by              *)
(*                save_events_to_csv, as scrape_and_save and main.py do;   *)
(*   SpecExtract  _extract_event_data applied to one entry node drawn from *)
(*                a bounded set of node shapes, and to the same node with  *)
(*                one kind of sub-element removed from the markup.         *)
(*                                                                         *)
(* Text is a sequence of one-character strings, so that strip() and the    *)
(* f-string of _format_date are computed, not assumed.                     *)
(***************************************************************************)
EXTENDS Integers, Sequences, FiniteSets, TLC

VARIABLES
    \* ---- one run of the scraper and the writer (Spec) ----
    caller,      \* who runs the scraper: "main" or "scrape_and_save"
    pc,          \* position of the run
    page,        \* scrape_babson_events: page
    all_events,  \* scrape_babson_events: all_events
    delay,       \* scrape_babson_events: delay
    served,      \* the responses the site has given, one per requests.get
    requested,   \* the page numbers asked for, one per requests.get
    idx,         \* entries of the current page already extracted
    trace,       \* the externally visible operations of the run, in order
    events,      \* the value scrape_babson_events returned to its caller
    file,        \* the destination file
    file0,       \* the destination file as it was before the run
    save_result, \* what save_events_to_csv gave its caller
    exc,         \* the exception that ended the run, or "none"
    \* ---- one entry node (SpecExtract) ----
    xpc,         \* "idle", "node" (not yet extracted) or "extracted"
    event,       \* the entry node handed to _extract_event_data
    event_data,  \* the outcome of _extract_event_data(event)
    prev_data,   \* the outcome for the node before a sub-element was removed
    removed      \* the kind of sub-element removed from the node, or "none"

runVars == <<caller, pc, page, all_events, delay, served, requested, idx,
             trace, events, file, file0, save_result, exc>>
nodeVars == <<xpc, event, event_data, prev_data, removed>>
vars == <<caller, pc, page, all_events, delay, served, requested, idx,
          trace, events, file, file0, save_result, exc,
          xpc, event, event_data, prev_data, removed>>

----------------------------------------------------------------------------
(* Bounds *)

\* pages one run may request
MaxPages == 3
\* entry nodes the site serves in one run, over all its pages
MaxEntries == 4
\* date-stamp sub-elements of one entry node
MaxStamps == 3
\* datelisting sub-elements of one entry node
MaxTimes == 2

DefaultDelay == 1

----------------------------------------------------------------------------
(* Text *)

NA == <<"N", "/", "A">>

Whitespace == {" ", "\n"}

RECURSIVE lstrip(_)
lstrip(s) ==
    IF s # <<>> /\ Head(s) \in Whitespace THEN lstrip(Tail(s)) ELSE s

RECURSIVE rstrip(_)
rstrip(s) ==
    IF s # <<>> /\ s[Len(s)] \in Whitespace
    THEN rstrip(SubSeq(s, 1, Len(s) - 1))
    ELSE s

\* str.strip()
strip(s) == rstrip(lstrip(s))

\* elem.get_text(strip=True) of an element holding one text node
get_text(elem) == strip(elem)

SeqsUpTo(S, n) == UNION {[1..k -> S] : k \in 0..n}

----------------------------------------------------------------------------
(* Entry nodes                                                             *)
(*                                                                         *)
(* An entry node (li.event-item) is described by what the selectors of     *)
(* _extract_event_data find in it, each list in document order:            *)
(*   titles         raw text of every p.title                              *)
(*   date_stamps    every div.date-stamp, as the raw text of its           *)
(*                  div.month / div.day / div.year (a list of 0 or 1)      *)
(*   time_listings  raw text of every span.datelisting                     *)
(*   icons          every span.fa-map-marker, as its next_sibling          *)
(*   anchors        every a.find-out-more, as its attrs                    *)

\* next_sibling of the icon: None, a NavigableString or a Tag
NoSibling == [kind |-> "none", text |-> <<>>]
TextSibling(t) == [kind |-> "text", text |-> t]
TagSibling == [kind |-> "tag", text |-> <<>>]

\* attrs of the anchor
NoHref == [has_href |-> FALSE, href |-> <<>>]
Href(u) == [has_href |-> TRUE, href |-> u]

StampA == [month |-> <<<<"N">>>>, day |-> <<<<" ", "1">>>>, year |-> <<<<"Y">>>>]
StampB == [month |-> <<>>, day |-> <<<<"2">>>>, year |-> <<<<"Y">>>>]
StampNone == [month |-> <<>>, day |-> <<>>, year |-> <<>>]

Stamps == {StampA, StampB, StampNone}
TimeTexts == {<<"9">>, <<" ", "5", " ">>}
TitleTexts == {<<" ", "t", "\n">>}
Siblings == {NoSibling, TextSibling(<<" ", "L", " ">>), TextSibling(<<" ">>), TagSibling}
Anchors == {NoHref, Href(<<"u">>)}

EventNodes ==
    [titles : SeqsUpTo(TitleTexts, 1),
     date_stamps : SeqsUpTo(Stamps, MaxStamps),
     time_listings : SeqsUpTo(TimeTexts, MaxTimes),
     icons : SeqsUpTo(Siblings, 1),
     anchors : SeqsUpTo(Anchors, 1)]

\* the three entry nodes the site serves in Spec: two well-formed entries
\* that share their link, and one whose icon is followed by an element
NodeA ==
    [titles |-> <<<<"a">>>>, date_stamps |-> <<StampA>>,
     time_listings |-> <<<<"9">>>>, icons |-> <<TextSibling(<<" ", "L", " ">>)>>,
     anchors |-> <<Href(<<"u">>)>>]
NodeB ==
    [titles |-> <<<<"b">>>>, date_stamps |-> <<StampA, StampB>>,
     time_listings |-> <<>>, icons |-> <<>>,
     anchors |-> <<Href(<<"u">>)>>]
NodeTag ==
    [titles |-> <<<<"c">>>>, date_stamps |-> <<>>,
     time_listings |-> <<>>, icons |-> <<TagSibling>>,
     anchors |-> <<Href(<<"v">>)>>]

ServedNodes == {NodeA, NodeB, NodeTag}

----------------------------------------------------------------------------
(* _format_date and _extract_event_data                                    *)

fieldnames ==
    <<"title", "start_date", "end_date", "start_time", "end_time",
      "location", "link">>

\* date_stamp.find(...) then get_text(strip=True), '' when not found
part_str(found) == IF found # <<>> THEN get_text(found[1]) ELSE <<>>

_format_date(date_stamp) ==
    strip(part_str(date_stamp.month) \o <<" ">> \o part_str(date_stamp.day)
          \o <<",", " ">> \o part_str(date_stamp.year))

\* how a call of _extract_event_data ends, with its local event_data as it
\* is at that point: complete on return, the fields set so far on a raise
Returned(data) == [raised |-> FALSE, exc |-> "none", data |-> data]
Raised(e, data) == [raised |-> TRUE, exc |-> e, data |-> data]

title_of(ev) ==
    IF ev.titles # <<>> THEN get_text(ev.titles[1]) ELSE NA

start_date_of(ev) ==
    IF Len(ev.date_stamps) = 1 THEN _format_date(ev.date_stamps[1])
    ELSE IF Len(ev.date_stamps) >= 2 THEN _format_date(ev.date_stamps[1])
    ELSE NA

\* end_date taken from the last stamp instead of the second
end_date_of_last(ev) ==
    IF Len(ev.date_stamps) = 1 THEN start_date_of(ev)
    ELSE IF Len(ev.date_stamps) >= 2
         THEN _format_date(ev.date_stamps[Len(ev.date_stamps)])
    ELSE NA

end_date_of(ev) ==
    IF Len(ev.date_stamps) = 1 THEN start_date_of(ev)
    ELSE IF Len(ev.date_stamps) >= 2 THEN _format_date(ev.date_stamps[2])
    ELSE NA

start_time_of(ev) ==
    IF Len(ev.time_listings) >= 2 THEN get_text(ev.time_listings[1])
    ELSE IF Len(ev.time_listings) = 1 THEN get_text(ev.time_listings[1])
    ELSE NA

end_time_of(ev) ==
    IF Len(ev.time_listings) >= 2 THEN get_text(ev.time_listings[2])
    ELSE NA

\* truth value of location_icon.next_sibling
sibling_truthy(sib) ==
    \/ sib.kind = "tag"
    \/ sib.kind = "text" /\ sib.text # <<>>

\* location_icon.next_sibling.strip(): a Tag has no strip method; the
\* attribute lookup gives None and calling it raises TypeError
location_raises(ev) ==
    /\ ev.icons # <<>>
    /\ sibling_truthy(ev.icons[1])
    /\ ev.icons[1].kind = "tag"

location_of(ev) ==
    IF ev.icons # <<>> /\ sibling_truthy(ev.icons[1])
    THEN strip(ev.icons[1].text)
    ELSE NA

link_of(ev) ==
    IF ev.anchors # <<>> /\ ev.anchors[1].has_href
    THEN ev.anchors[1].href
    ELSE NA

_extract_event_data(ev) ==
    IF location_raises(ev)
    THEN Raised("TypeError",
                [title |-> title_of(ev),
                 start_date |-> start_date_of(ev),
                 end_date |-> end_date_of(ev),
                 start_time |-> start_time_of(ev),
                 end_time |-> end_time_of(ev)])
    ELSE Returned([title |-> title_of(ev),
                   start_date |-> start_date_of(ev),
                   end_date |-> end_date_of(ev),
                   start_time |-> start_time_of(ev),
                   end_time |-> end_time_of(ev),
                   location |-> location_of(ev),
                   link |-> link_of(ev)])

----------------------------------------------------------------------------
(* SpecExtract: _extract_event_data on one entry node                      *)

NoOutcome == [raised |-> FALSE, exc |-> "unset", data |-> <<>>]

SubElements == {"title", "date-stamp", "datelisting", "map-marker", "find-out-more"}

\* the entry node with every sub-element of one kind taken out of the markup
Without(ev, kind) ==
    CASE kind = "title" -> [ev EXCEPT !.titles = <<>>]
      [] kind = "date-stamp" -> [ev EXCEPT !.date_stamps = <<>>]
      [] kind = "datelisting" -> [ev EXCEPT !.time_listings = <<>>]
      [] kind = "map-marker" -> [ev EXCEPT !.icons = <<>>]
      [] kind = "find-out-more" -> [ev EXCEPT !.anchors = <<>>]

\* the record fields that the selector of a sub-element kind feeds
FieldsOf(kind) ==
    CASE kind = "title" -> {"title"}
      [] kind = "date-stamp" -> {"start_date", "end_date"}
      [] kind = "datelisting" -> {"start_time", "end_time"}
      [] kind = "map-marker" -> {"location"}
      [] kind = "find-out-more" -> {"link"}

IdleRun ==
    /\ caller = "none"
    /\ pc = "idle"
    /\ page = 1
    /\ all_events = <<>>
    /\ delay = DefaultDelay
    /\ served = <<>>
    /\ requested = <<>>
    /\ idx = 0
    /\ trace = <<>>
    /\ events = <<>>
    /\ file = [exists |-> FALSE, rows |-> <<>>]
    /\ file0 = file
    /\ save_result = [returned |-> "none", message |-> "none"]
    /\ exc = "none"

InitExtract ==
    /\ IdleRun
    /\ xpc = "node"
    /\ event \in EventNodes
    /\ event_data = NoOutcome
    /\ prev_data = NoOutcome
    /\ removed = "none"

\* event_data = _extract_event_data(event)
ExtractNode ==
    /\ xpc = "node"
    /\ event_data' = _extract_event_data(event)
    /\ xpc' = "extracted"
    /\ UNCHANGED <<event, prev_data, removed>>
    /\ UNCHANGED runVars

\* the page changes: one kind of sub-element disappears from the entry node,
\* which is then extracted again
RemoveSubElement ==
    /\ xpc = "extracted"
    /\ removed = "none"
    /\ \E kind \in SubElements :
        /\ event' = Without(event, kind)
        /\ removed' = kind
    /\ prev_data' = event_data
    /\ event_data' = NoOutcome
    /\ xpc' = "node"
    /\ UNCHANGED runVars

NextExtract == ExtractNode \/ RemoveSubElement

SpecExtract == InitExtract /\ [][NextExtract]_vars

----------------------------------------------------------------------------
(* Spec: one run of the scraper, then the writer                           *)

Callers == {"main", "scrape_and_save"}

NoFile == [exists |-> FALSE, rows |-> <<>>]

\* what an earlier run left at the destination
StaleFile == [exists |-> TRUE, rows |-> <<fieldnames>>]

\* requests.get / raise_for_status fail, or the response is a page: its
\* li.event-item nodes in document order and its ul.pagination
FetchErrors == {"transport_error", "http_error"}
Paginations == {"absent", "no_next", "next"}

FailedResponse(s) == [status |-> s, events |-> <<>>, pagination |-> "absent"]

RECURSIVE EntriesServed(_)
EntriesServed(rs) ==
    IF rs = <<>> THEN 0 ELSE Len(Head(rs).events) + EntriesServed(Tail(rs))

Responses ==
    {FailedResponse(s) : s \in FetchErrors}
    \cup [status : {"ok"},
          events : SeqsUpTo(ServedNodes, MaxEntries - EntriesServed(served)),
          pagination : Paginations]

\* csv.DictWriter: the header row, then one row per record, the values in
\* the order of fieldnames
Row(rec) == [i \in 1..Len(fieldnames) |-> rec[fieldnames[i]]]
Rows(recs) == <<fieldnames>> \o [i \in 1..Len(recs) |-> Row(recs[i])]

Op(name, arg) == [op |-> name, arg |-> arg]

Init ==
    /\ caller \in Callers
    /\ pc = "fetch"
    /\ page = 1
    /\ all_events = <<>>
    /\ delay = DefaultDelay
    /\ served = <<>>
    /\ requested = <<>>
    /\ idx = 0
    /\ trace = <<>>
    /\ events = <<>>
    /\ file0 \in {NoFile, StaleFile}
    /\ file = file0
    /\ save_result = [returned |-> "none", message |-> "none"]
    /\ exc = "none"
    /\ xpc = "idle"
    /\ event = NodeA
    /\ event_data = NoOutcome
    /\ prev_data = NoOutcome
    /\ removed = "none"

\* the request error is caught and the loop left with what was collected
Fetch_swallow ==
    /\ pc = "fetch"
    /\ page <= MaxPages
    /\ \E resp \in Responses :
        /\ served' = Append(served, resp)
        /\ pc' = IF resp.status # "ok" \/ resp.events = <<>>
                 THEN "return" ELSE "extract"
    /\ requested' = Append(requested, page)
    /\ trace' = Append(trace, Op("fetch", page))
    /\ idx' = 0
    /\ UNCHANGED <<caller, page, all_events, delay, events, file, file0,
                   save_result, exc>>
    /\ UNCHANGED nodeVars

\* top of the while loop: request the page, raise on failure, find the
\* entries, break when there are none
Fetch ==
    /\ pc = "fetch"
    /\ page <= MaxPages
    /\ \E resp \in Responses :
        /\ served' = Append(served, resp)
        /\ IF resp.status # "ok"
           THEN pc' = "raised" /\ exc' = "RequestException"
           ELSE /\ pc' = IF resp.events = <<>> THEN "return" ELSE "extract"
                /\ exc' = exc
    /\ requested' = Append(requested, page)
    /\ trace' = Append(trace, Op("fetch", page))
    /\ idx' = 0
    /\ UNCHANGED <<caller, page, all_events, delay, events, file, file0, save_result>>
    /\ UNCHANGED nodeVars

\* an entry whose link is already in the list is skipped
ExtractEvent_dedup ==
    /\ pc = "extract"
    /\ LET entries == served[Len(served)].events
           out == _extract_event_data(entries[idx + 1])
       IN IF out.raised
          THEN /\ pc' = "raised"
               /\ exc' = out.exc
               /\ UNCHANGED <<all_events, idx>>
          ELSE /\ all_events' =
                    IF \E i \in 1..Len(all_events) :
                          all_events[i].link = out.data.link
                    THEN all_events
                    ELSE Append(all_events, out.data)
               /\ idx' = idx + 1
               /\ pc' = IF idx + 1 = Len(entries) THEN "paginate" ELSE "extract"
               /\ exc' = exc
    /\ UNCHANGED <<caller, page, delay, served, requested, trace, events, file,
                   file0, save_result>>
    /\ UNCHANGED nodeVars

\* one turn of "for event in events": extract and append
ExtractEvent ==
    /\ pc = "extract"
    /\ LET entries == served[Len(served)].events
           out == _extract_event_data(entries[idx + 1])
       IN IF out.raised
          THEN /\ pc' = "raised"
               /\ exc' = out.exc
               /\ UNCHANGED <<all_events, idx>>
          ELSE /\ all_events' = Append(all_events, out.data)
               /\ idx' = idx + 1
               /\ pc' = IF idx + 1 = Len(entries) THEN "paginate" ELSE "extract"
               /\ exc' = exc
    /\ UNCHANGED <<caller, page, delay, served, requested, trace, events, file,
                   file0, save_result>>
    /\ UNCHANGED nodeVars

\* the next page is requested without the pause
CheckPagination_no_sleep ==
    /\ pc = "paginate"
    /\ IF served[Len(served)].pagination # "next"
       THEN pc' = "return" /\ page' = page
       ELSE pc' = "fetch" /\ page' = page + 1
    /\ UNCHANGED <<caller, all_events, delay, served, requested, idx, trace,
                   events, file, file0, save_result, exc>>
    /\ UNCHANGED nodeVars

\* the next-page check: break, or page += 1
CheckPagination ==
    /\ pc = "paginate"
    /\ IF served[Len(served)].pagination # "next"
       THEN pc' = "return" /\ page' = page
       ELSE pc' = "sleep" /\ page' = page + 1
    /\ UNCHANGED <<caller, all_events, delay, served, requested, idx, trace,
                   events, file, file0, save_result, exc>>
    /\ UNCHANGED nodeVars

\* time.sleep(delay)
Sleep ==
    /\ pc = "sleep"
    /\ trace' = Append(trace, Op("sleep", delay))
    /\ pc' = "fetch"
    /\ UNCHANGED <<caller, page, all_events, delay, served, requested, idx,
                   events, file, file0, save_result, exc>>
    /\ UNCHANGED nodeVars

\* the caller saves only a non-empty list
Return_skip_empty ==
    /\ pc = "return"
    /\ events' = all_events
    /\ pc' = IF all_events = <<>> THEN "done" ELSE "save"
    /\ UNCHANGED <<caller, page, all_events, delay, served, requested, idx,
                   trace, file, file0, save_result, exc>>
    /\ UNCHANGED nodeVars

\* return all_events
Return ==
    /\ pc = "return"
    /\ events' = all_events
    /\ pc' = "save"
    /\ UNCHANGED <<caller, page, all_events, delay, served, requested, idx,
                   trace, file, file0, save_result, exc>>
    /\ UNCHANGED nodeVars

\* the writer without its "if not events" check
save_events_to_csv_unchecked ==
    /\ pc = "save"
    /\ trace' = Append(trace, Op("save", Len(events)))
    /\ \E io \in {"ok", "open_fails", "write_fails"} :
         IF io = "ok"
         THEN /\ file' = [exists |-> TRUE, rows |-> Rows(events)]
              /\ save_result' = [returned |-> "True", message |-> "success"]
              /\ pc' = "done"
              /\ exc' = exc
         ELSE /\ IF io = "open_fails"
                 THEN file' = file
                 ELSE \E n \in 0..Len(events) :
                         file' = [exists |-> TRUE,
                                  rows |-> SubSeq(Rows(events), 1, n)]
              /\ save_result' = [returned |-> "none", message |-> "error"]
              /\ pc' = "raised"
              /\ exc' = "IOError"
    /\ UNCHANGED <<caller, page, all_events, delay, served, requested, idx,
                   events, file0>>
    /\ UNCHANGED nodeVars

\* the caller hands the returned list to save_events_to_csv
save_events_to_csv ==
    /\ pc = "save"
    /\ trace' = Append(trace, Op("save", Len(events)))
    /\ IF events = <<>>
       THEN /\ save_result' = [returned |-> "False", message |-> "warning"]
            /\ pc' = "done"
            /\ UNCHANGED <<file, exc>>
       ELSE \E io \in {"ok", "open_fails", "write_fails"} :
            IF io = "ok"
            THEN /\ file' = [exists |-> TRUE, rows |-> Rows(events)]
                 /\ save_result' = [returned |-> "True", message |-> "success"]
                 /\ pc' = "done"
                 /\ exc' = exc
            ELSE /\ IF io = "open_fails"
                    THEN file' = file
                    ELSE \E n \in 0..Len(events) :
                            file' = [exists |-> TRUE,
                                     rows |-> SubSeq(Rows(events), 1, n)]
                 /\ save_result' = [returned |-> "none", message |-> "error"]
                 /\ pc' = "raised"
                 /\ exc' = "IOError"
    /\ UNCHANGED <<caller, page, all_events, delay, served, requested, idx,
                   events, file0>>
    /\ UNCHANGED nodeVars

Next ==
    \/ Fetch
    \/ ExtractEvent
    \/ CheckPagination
    \/ Sleep
    \/ Return
    \/ save_events_to_csv

Spec == Init /\ [][Next]_vars

----------------------------------------------------------------------------
(* Properties of a run (Spec)                                              *)

InLoop == pc \in {"fetch", "extract", "paginate", "sleep"}

\* a response after which the loop is meant to stop
StopPage(resp) ==
    \/ resp.status # "ok"
    \/ resp.events = <<>>
    \/ resp.pagination # "next"

SaveOps == {i \in 1..Len(trace) : trace[i].op = "save"}

\* the scraper returned its list to the caller
ScraperReturned == pc \in {"save", "done"} \/ (pc = "raised" /\ exc = "IOError")

\* page p+1 is requested only after page p was fetched, had entries and a
\* next-page link
FetchGate ==
    \A i \in 2..Len(served) :
        /\ served[i - 1].status = "ok"
        /\ served[i - 1].events # <<>>
        /\ served[i - 1].pagination = "next"

\* the listing of the end-to-end scenario, as far as the run has seen it
Fixture ==
    /\ Len(served) >= 2
    /\ served[1].status = "ok"
    /\ Len(served[1].events) = 3
    /\ served[1].pagination = "next"
    /\ served[2].status = "ok"
    /\ Len(served[2].events) = 1
    /\ served[2].pagination # "next"

\* C1: page p+1 is fetched only if page p was fetched successfully, had at
\* least one entry and a next-page link; and on the listing with 3 entries
\* and a next link on page 1, 1 entry and no next link on page 2, the run
\* requests exactly pages 1 and 2, never page 3, and returns 4 records.
C1_GatedFetchAndFixture ==
    /\ FetchGate
    /\ Fixture =>
        /\ requested = <<1, 2>>
        /\ ~InLoop => ScraperReturned /\ Len(events) = 4

\* C2: when the fetch of a page fails, the run ends there with the request
\* error: the failed page is the last one requested, it was requested once,
\* the writer is never called and the destination file stays as it was.
C2_FetchFailureAborts ==
    \A i \in 1..Len(served) :
        served[i].status # "ok" =>
            /\ i = Len(served)
            /\ pc = "raised"
            /\ exc = "RequestException"
            /\ \A j \in 1..Len(requested) : j # i => requested[j] # requested[i]
            /\ SaveOps = {}
            /\ save_result.returned = "none"
            /\ file = file0

C2_Witness ==
    /\ Len(served) = 2
    /\ served[2].status = "http_error"
    /\ Len(all_events) = 2
    /\ file0 = StaleFile
    /\ pc = "raised"

\* C3: the writer is never called while the loop runs; a run whose loop
\* ended on an empty page or on a page without a next link hands the
\* accumulated list to the writer exactly once, as the last operation after
\* every fetch.
C3_WriterOnceAfterLoop ==
    /\ Cardinality(SaveOps) <= 1
    /\ InLoop \/ pc = "return" => SaveOps = {}
    /\ pc \in {"return", "save"} => ENABLED (Return \/ save_events_to_csv)
    /\ pc = "done" \/ (pc = "raised" /\ exc = "IOError") =>
        /\ Cardinality(SaveOps) = 1
        /\ trace[Len(trace)] = Op("save", Len(all_events))
        /\ events = all_events

C3_Witness ==
    /\ pc = "done"
    /\ Len(served) = 3
    /\ served[3].events = <<>>
    /\ Len(all_events) = 3
    /\ Cardinality(SaveOps) = 1

C8_OnePauseBetweenFetches ==
    /\ delay = DefaultDelay
    /\ \A i \in 1..Len(trace) :
        /\ trace[i].op = "sleep" =>
            /\ trace[i].arg = delay
            /\ i > 1
            /\ trace[i - 1].op = "fetch"
            /\ IF i < Len(trace) THEN trace[i + 1].op = "fetch" ELSE pc = "fetch"
        /\ trace[i].op = "fetch" /\ i > 1 => trace[i - 1].op = "sleep"

C8_Witness ==
    /\ pc = "done"
    /\ Len(trace) = 6
    /\ trace[1].op = "fetch"
    /\ trace[2] = Op("sleep", 1)
    /\ trace[3].op = "fetch"
    /\ trace[4] = Op("sleep", 1)
    /\ trace[5].op = "fetch"
    /\ trace[6].op = "save"

RecordsOf(nodes) == [i \in 1..Len(nodes) |-> _extract_event_data(nodes[i]).data]

RECURSIVE RecordsOfPages(_)
RecordsOfPages(rs) ==
    IF rs = <<>> THEN <<>>
    ELSE RecordsOf(Head(rs).events) \o RecordsOfPages(Tail(rs))

\* C9: the accumulated list is the records of the pages processed so far,
\* in page order and, within a page, in document order, followed by the
\* records of the entries of the current page extracted so far; nothing is
\* dropped or merged, so a returned list has as many records as the pages
\* fetched had entries.
C9_AppendOnlyInOrder ==
    /\ served = <<>> => all_events = <<>>
    /\ served # <<>> =>
        all_events =
            RecordsOfPages(SubSeq(served, 1, Len(served) - 1))
            \o RecordsOf(SubSeq(served[Len(served)].events, 1, idx))
    /\ ScraperReturned =>
        /\ events = all_events
        /\ Len(events) = EntriesServed(served)

C9_Witness ==
    /\ pc = "done"
    /\ Len(served) = 2
    /\ served[1].events = <<NodeB, NodeA>>
    /\ served[2].events = <<NodeA, NodeA>>
    /\ Len(all_events) = 4
    /\ all_events[1].title = <<"b">>
    /\ all_events[2].link = all_events[1].link

\* C10: the pages requested are 1, 2, ..., k in this order, each once, and
\* when the loop has ended, page k is the first page that failed to fetch,
\* had no entries or had no next-page link: the loop ends for no other
\* reason.
C10_StopsOnlyAtFirstStopPage ==
    /\ requested = [i \in 1..Len(served) |-> i]
    /\ ~InLoop =>
        /\ served # <<>>
        /\ StopPage(served[Len(served)])
        /\ \A i \in 1..(Len(served) - 1) : ~StopPage(served[i])

----------------------------------------------------------------------------
(* Properties of _extract_event_data (SpecExtract)                         *)

Chars ==
    {"N", "/", "A", " ", "\n", "1", "2", "Y", ",", "9", "5", "t", "L", "u",
     "v", "a", "b", "c"}

FieldSet == {fieldnames[i] : i \in 1..Len(fieldnames)}

SevenTextFields(data) ==
    /\ DOMAIN data = FieldSet
    /\ Cardinality(FieldSet) = 7
    /\ \A f \in FieldSet : data[f] \in Seq(Chars)

\* C5: _extract_event_data gives, for every entry node, a record of exactly
\* the seven fields, each a text; with one kind of sub-element removed from
\* the node, the record has "N/A" in the fields fed by that kind and, in
\* every other field, the value it had before the removal.
C5_SevenFieldsIndependent ==
    xpc = "extracted" =>
        /\ ~event_data.raised
        /\ SevenTextFields(event_data.data)
        /\ removed # "none" =>
            /\ \A f \in FieldsOf(removed) : event_data.data[f] = NA
            /\ ~prev_data.raised
            /\ \A f \in FieldSet \ FieldsOf(removed) :
                    event_data.data[f] = prev_data.data[f]

\* The part of C5 that the code keeps: the same statement about the entry
\* nodes for which _extract_event_data returns.
FieldsIndependentWhenReturned ==
    xpc = "extracted" /\ ~event_data.raised =>
        /\ SevenTextFields(event_data.data)
        /\ removed # "none" =>
            /\ \A f \in FieldsOf(removed) : event_data.data[f] = NA
            /\ ~prev_data.raised =>
                \A f \in FieldSet \ FieldsOf(removed) :
                    event_data.data[f] = prev_data.data[f]

\* C6: _extract_event_data returns a record for every shape of entry node;
\* it never raises.
C6_ExtractionNeverRaises ==
    xpc = "extracted" => ~event_data.raised

\* C7: without a date-stamp both dates are "N/A"; with one, both are that
\* stamp formatted; with two or more, start_date is the first stamp and
\* end_date the second, formatted, and the record is the one the node gives
\* with only its first two stamps.
C7_DatesByStampCount ==
    xpc = "extracted" =>
        LET n == Len(event.date_stamps)
            d == event_data.data
        IN /\ n = 0 => d.start_date = NA /\ d.end_date = NA
           /\ n = 1 =>
                /\ d.start_date = _format_date(event.date_stamps[1])
                /\ d.end_date = d.start_date
           /\ n >= 2 =>
                /\ d.start_date = _format_date(event.date_stamps[1])
                /\ d.end_date = _format_date(event.date_stamps[2])
                /\ event_data =
                     _extract_event_data(
                        [event EXCEPT !.date_stamps = SubSeq(@, 1, 2)])
           /\ n >= 1 /\ event.date_stamps[1] = StampA =>
                d.start_date = <<"N", " ", "1", ",", " ", "Y">>

C7_Witness ==
    /\ xpc = "extracted"
    /\ event.date_stamps = <<StampA, StampB, StampNone>>
    /\ event_data.data.start_date = <<"N", " ", "1", ",", " ", "Y">>
    /\ event_data.data.end_date = <<"2", ",", " ", "Y">>

====
